---- MODULE Spec2Model ----
(***************************************************************************)
(* Model of main.py, the LINE -> Dify relay.                               *)
(*                                                                         *)
(* One webhook request is in flight at a time: callback is an async def    *)
(* that calls the blocking handler.handle without awaiting, so the event   *)
(* loop runs each request to completion before it takes the next one.      *)
(* Every outbound call (content download, file upload, chat-message        *)
(* forward, reply) is one step whose outcome the environment chooses.      *)
(*                                                                         *)
(* Texts that pass through re.sub/strip are sequences of characters; the   *)
(* three fixed Thai reply strings are written as one-element sequences     *)
(* holding an ASCII rendering (they contain no tag and no outer blank).    *)
(*                                                                         *)
(* Spec is the relay as it runs. AnswerSpec applies the post-processing of *)
(* call_dify_api to backend answers built from tag fragments. ConcSpec     *)
(* runs the handler statements of two events as two threads over the one   *)
(* user_sessions dict.                                                     *)
(***************************************************************************)
EXTENDS Integers, Sequences, FiniteSets, TLC

\* ---- bounds -------------------------------------------------------------
MaxEvents == 3      \* events delivered over one run
MaxBatch == 2       \* events carried by one webhook request
MaxPieces == 5      \* pieces an answer text is put together from

Users == {"u1", "u2"}
Tokens == {"c1", "c2"}
Texts == {"hello", "bye"}
MessageIds == {"m1"}
FileIds == {"f1"}

\* ---- values -------------------------------------------------------------
MediaKinds == {"image", "video", "audio"}
OtherKinds == {"sticker"}

Absent == "<absent>"
Failed == "<raised>"
NoEvent == [kind |-> "none"]

APOLOGY == <<"Sorry, the system is temporarily unavailable">>
UPLOAD_APOLOGY == <<"Sorry, could not upload the file to the AI">>
FILE_ERROR_APOLOGY == <<"Sorry, an error occurred while processing the file">>

OpenTag == <<"<", "t", "h", "i", "n", "k", ">">>
CloseTag == <<"<", "/", "t", "h", "i", "n", "k", ">">>
Whitespace == {" ", "\t", "\n", "\r"}

ThinkAnswer == <<" ">> \o OpenTag \o <<"x", "\n">> \o CloseTag \o <<"h", "i", "\n">>
Answers == {ThinkAnswer}

\* JSON bodies the chat-messages endpoint can send with a 2xx status
ChatResults ==
    {[answer |-> a, conversation_id |-> c] : a \in Answers, c \in Tokens \cup {""}}
        \cup {[answer |-> a] : a \in Answers}
        \cup {[conversation_id |-> c] : c \in Tokens}
        \cup {<<>>}

\* JSON bodies the files/upload endpoint can send with a 2xx status
UploadResults == {[id |-> f] : f \in FileIds \cup {""}} \cup {<<>>}

VARIABLES
    user_sessions,    \* the dict of line 53: sender -> conversation id
    pc,               \* position of the request in flight
    status,           \* HTTP status of the last answered POST /callback
    req,              \* the last received request: body decodable, signature matches
    queue,            \* payload.events still to dispatch
    ev,               \* the event being handled (or last handled)
    conversation_id,  \* local of the handler, lines 80 and 93
    dify_file_id,     \* local of handle_file_message, line 108
    response,         \* (dify_response, new_conversation_id) of line 123
    calls,            \* outbound calls made for ev, in order
    fwdlog,           \* every chat-messages call so far: sender, id sent, id returned
    pre_sessions,     \* user_sessions when ev was dispatched
    received,         \* events delivered so far
    answer_trace,     \* the local answer of call_dify_api: at line 201, after
                      \* line 205, and after line 205 applied once more
    handlers,         \* the locals of the handlers that run side by side
    writes            \* the writes of line 126 made by those handlers, in order

vars == <<user_sessions, pc, status, req, queue, ev, conversation_id, dify_file_id,
          response, calls, fwdlog, pre_sessions, received, answer_trace, handlers,
          writes>>

\* the variables the relay's one request in flight never touches
Elsewhere == <<answer_trace, handlers, writes>>

\* ---- helpers ------------------------------------------------------------
\* dict.get(key, default)
Get(d, key, default) == IF key \in DOMAIN d THEN d[key] ELSE default

\* d[key] = value
Put(d, key, value) == [k \in DOMAIN d \cup {key} |-> IF k = key THEN value ELSE d[k]]

\* mutant: a test for None in place of the truthiness test
Truthy_not_none(v) == v # Absent

\* Python truthiness of an optional string
Truthy(v) == v # Absent /\ v # ""

MinOf(S) == CHOOSE m \in S : \A n \in S : m <= n

MatchesAt(s, p, i) ==
    /\ i + Len(p) - 1 <= Len(s)
    /\ \A k \in 1..Len(p) : s[i + k - 1] = p[k]

\* index of the first occurrence of p in s at or after from, 0 if none
Find(s, p, from) ==
    LET hits == {i \in from..Len(s) : MatchesAt(s, p, i)}
    IN IF hits = {} THEN 0 ELSE MinOf(hits)

\* re.sub(r'<think>.*?</think>', '', s, flags=re.DOTALL)
RECURSIVE re_sub_think(_)
re_sub_think(s) ==
    LET i == Find(s, OpenTag, 1)
        j == IF i = 0 THEN 0 ELSE Find(s, CloseTag, i + Len(OpenTag))
    IN IF j = 0 THEN s
       ELSE SubSeq(s, 1, i - 1) \o re_sub_think(SubSeq(s, j + Len(CloseTag), Len(s)))

\* mutant: the .strip() of line 205 left out
strip_omitted(s) == s

\* str.strip()
RECURSIVE strip(_)
strip(s) ==
    IF s = <<>> THEN s
    ELSE IF s[1] \in Whitespace THEN strip(Tail(s))
    ELSE IF s[Len(s)] \in Whitespace THEN strip(SubSeq(s, 1, Len(s) - 1))
    ELSE s

\* lines 201-207: what call_dify_api returns for a 2xx JSON body
ParseAnswer(result) == strip(re_sub_think(Get(result, "answer", APOLOGY)))
ParseConversationId(result) == Get(result, "conversation_id", "")

\* line 104-106
Extension(kind) ==
    CASE kind = "image" -> "jpg"
      [] kind = "video" -> "mp4"
      [] kind = "audio" -> "m4a"
      [] OTHER -> "bin"
Filename(e) == e.id \o "." \o Extension(e.kind)


\* mutant: the text handler forwards the message id instead of the message text
QueryOf_id(e) == IF e.kind = "text" THEN e.id ELSE "[" \o e.kind \o " uploaded]"

\* the query process_and_reply is called with: line 83 (text), line 113 (media)
QueryOf(e) == IF e.kind = "text" THEN e.text ELSE "[" \o e.kind \o " uploaded]"


\* mutant: the file reference never reaches the body (lines 185-192 dropped)
Payload_nofile(query, user_id, conv, file_id) ==
    LET base == [inputs |-> <<>>, query |-> query, response_mode |-> "blocking",
                 user |-> user_id, files |-> <<>>]
    IN IF Truthy(conv) THEN base @@ [conversation_id |-> conv] ELSE base

\* lines 173-192: the JSON body of the chat-messages call
Payload(query, user_id, conv, file_id) ==
    LET base == [inputs |-> <<>>, query |-> query, response_mode |-> "blocking",
                 user |-> user_id,
                 files |-> IF Truthy(file_id)
                           THEN <<[type |-> "image", transfer_method |-> "local_file",
                                   upload_file_id |-> file_id]>>
                           ELSE <<>>]
    IN IF Truthy(conv) THEN base @@ [conversation_id |-> conv] ELSE base

\* HMAC-SHA256 of the body under a key, as an opaque injective tag
Hmac(key, body) == <<key, body>>

\* line 40, line 50
LINE_CHANNEL_SECRET == "channel secret"

\* the X-Line-Signature values a sender can put on a body: the platform's,
\* one made with another key, and none (the header default '' of line 61)
Sign(body) == Hmac(LINE_CHANNEL_SECRET, body)
Forged(body) == Hmac("another key", body)
NoSignature == <<>>

IsMedia(e) == e.kind \in MediaKinds

\* ---- initial state ------------------------------------------------------
Init ==
    /\ user_sessions = <<>>
    /\ pc = "idle"
    /\ status = "none"
    /\ req = [utf8 |-> TRUE, signed |-> TRUE]
    /\ queue = <<>>
    /\ ev = NoEvent
    /\ conversation_id = ""
    /\ dify_file_id = Absent
    /\ response = <<>>
    /\ calls = <<>>
    /\ fwdlog = <<>>
    /\ pre_sessions = <<>>
    /\ received = 0
    /\ answer_trace = <<>>
    /\ handlers = <<>>
    /\ writes = <<>>

\* ---- POST /callback, lines 59-71 ----------------------------------------
EventChoices ==
    {[kind |-> "text", user_id |-> u, text |-> t, id |-> m] :
        u \in Users, t \in Texts, m \in MessageIds}
    \cup {[kind |-> k, user_id |-> u, text |-> "", id |-> m] :
        k \in MediaKinds \cup OtherKinds, u \in Users, m \in MessageIds}

\* the events of a body, each with its own single-use reply token
Stamp(es, base) ==
    [i \in 1..Len(es) |->
        [kind |-> es[i].kind, user_id |-> es[i].user_id, text |-> es[i].text,
         id |-> es[i].id, reply_token |-> base + i]]

\* signature_validator.validate inside handler.handle, line 66
ValidSignature(body, signature) == signature = Sign(body)

callback(body, utf8, signature) ==
    /\ pc = "idle"
    /\ received' = received + Len(body)
    /\ req' = [utf8 |-> utf8, signed |-> ValidSignature(body, signature)]
    /\ IF ~utf8
       THEN \* line 63: body.decode raises UnicodeDecodeError
            /\ status' = "500"
            /\ UNCHANGED <<pc, queue>>
       ELSE IF ~ValidSignature(body, signature)
       THEN \* lines 67-69
            /\ status' = "400"
            /\ UNCHANGED <<pc, queue>>
       ELSE /\ status' = "pending"
            /\ pc' = "handle"
            /\ queue' = body
    /\ UNCHANGED <<user_sessions, ev, conversation_id, dify_file_id, response,
                   calls, fwdlog, pre_sessions, Elsewhere>>

Callback ==
    \E n \in 0..MaxBatch :
        /\ received + n <= MaxEvents
        /\ \E es \in [1..n -> EventChoices], utf8 \in BOOLEAN :
            LET body == Stamp(es, received)
            IN \E signature \in (IF utf8 THEN {Sign(body)} ELSE {})
                                    \cup {NoSignature, Forged(body)} :
                callback(body, utf8, signature)

\* ---- handler.handle: the loop over payload.events, line 66 --------------
\* the loop is over: line 71. The handler's locals and the record of its
\* calls do not outlive the request.
Return200 ==
    /\ pc = "handle"
    /\ queue = <<>>
    /\ pc' = "idle"
    /\ status' = "200"
    /\ ev' = NoEvent
    /\ calls' = <<>>
    /\ pre_sessions' = user_sessions
    /\ UNCHANGED <<user_sessions, req, queue, conversation_id, dify_file_id,
                   response, fwdlog, received, Elsewhere>>

\* an exception left the handler: it leaves handler.handle (line 66) and
\* callback too, the events still in the loop are never dispatched, and the
\* framework answers 500
Return500 ==
    /\ pc = "raise"
    /\ pc' = "idle"
    /\ status' = "500"
    /\ queue' = <<>>
    /\ ev' = NoEvent
    /\ calls' = <<>>
    /\ pre_sessions' = user_sessions
    /\ UNCHANGED <<user_sessions, req, conversation_id, dify_file_id,
                   response, fwdlog, received, Elsewhere>>

Dispatch ==
    /\ pc = "handle"
    /\ queue # <<>>
    /\ LET e == Head(queue)
       IN /\ queue' = Tail(queue)
          /\ IF e.kind = "text" THEN pc' = "handle_text_message"
             ELSE IF IsMedia(e) THEN pc' = "handle_file_message"
             ELSE pc' = "handle"
          /\ IF e.kind \in OtherKinds
             THEN UNCHANGED <<ev, calls, pre_sessions>>
             ELSE /\ ev' = e
                  /\ calls' = <<>>
                  /\ pre_sessions' = user_sessions
    /\ UNCHANGED <<user_sessions, status, req, conversation_id, dify_file_id,
                   response, fwdlog, received, Elsewhere>>

\* ---- the outbound calls ------------------------------------------------
\* the handler's frame is left: its locals are gone
DropLocals ==
    /\ conversation_id' = ""
    /\ dify_file_id' = Absent
    /\ response' = <<>>

\* an exception leaves the handler
Escape ==
    /\ pc' = "raise"
    /\ DropLocals
    /\ UNCHANGED <<status, queue>>

\* the handler returns to the loop of handler.handle
Returned ==
    /\ pc' = "handle"
    /\ DropLocals
    /\ UNCHANGED <<status, queue>>

KeepLocals == UNCHANGED <<conversation_id, dify_file_id, response>>

Goto(label) ==
    /\ pc' = label
    /\ UNCHANGED <<status, queue>>

Record(call) == calls' = Append(calls, call)

\* lines 134-142: one reply_message call with the event's reply token
reply_text(reply_token, text, ok) ==
    Record([op |-> "reply", replyToken |-> reply_token, text |-> text, ok |-> ok])

\* ---- handle_text_message, lines 74-83 -----------------------------------
handle_text_message ==
    /\ pc = "handle_text_message"
    /\ conversation_id' = Get(user_sessions, ev.user_id, "")
    /\ dify_file_id' = Absent
    /\ Goto("call_dify_api")
    /\ UNCHANGED <<user_sessions, req, ev, response, calls, fwdlog, pre_sessions, received, Elsewhere>>


\* mutant: the media handler starts a fresh conversation (line 93 dropped)
handle_file_message_fresh ==
    /\ pc = "handle_file_message"
    /\ conversation_id' = ""
    /\ dify_file_id' = Absent
    /\ Goto("get_message_content")
    /\ UNCHANGED <<user_sessions, req, ev, response, calls, fwdlog, pre_sessions, received, Elsewhere>>

\* ---- handle_file_message, lines 86-119 ----------------------------------
handle_file_message ==
    /\ pc = "handle_file_message"
    /\ conversation_id' = Get(user_sessions, ev.user_id, "")
    /\ dify_file_id' = Absent
    /\ Goto("get_message_content")
    /\ UNCHANGED <<user_sessions, req, ev, response, calls, fwdlog, pre_sessions, received, Elsewhere>>

\* mutant: a failed download ends the handler without a reply
get_message_content_noreply ==
    /\ pc = "get_message_content"
    /\ \E ok \in BOOLEAN :
        /\ Record([op |-> "download", message_id |-> ev.id, ok |-> ok])
        /\ IF ok THEN Goto("upload_file_to_dify") /\ KeepLocals ELSE Escape
    /\ UNCHANGED <<user_sessions, req, ev, fwdlog, pre_sessions, received, Elsewhere>>

\* mutant: the outcome of the download is not looked at
get_message_content_ignore ==
    /\ pc = "get_message_content"
    /\ \E ok \in BOOLEAN :
        /\ Record([op |-> "download", message_id |-> ev.id, ok |-> ok])
        /\ Goto("upload_file_to_dify")
    /\ UNCHANGED <<user_sessions, req, ev, conversation_id, dify_file_id, response,
                   fwdlog, pre_sessions, received, Elsewhere>>

\* lines 98-100
get_message_content ==
    /\ pc = "get_message_content"
    /\ \E ok \in BOOLEAN :
        /\ Record([op |-> "download", message_id |-> ev.id, ok |-> ok])
        /\ IF ok THEN Goto("upload_file_to_dify") ELSE Goto("reply_file_error")
    /\ UNCHANGED <<user_sessions, req, ev, conversation_id, dify_file_id, response,
                   fwdlog, pre_sessions, received, Elsewhere>>

\* lines 157-165: the value upload_file_to_dify returns
UploadReturn(ok, result) == IF ok THEN Get(result, "id", Absent) ELSE Absent

\* lines 104-115 with upload_file_to_dify, lines 144-165
upload_file_to_dify ==
    /\ pc = "upload_file_to_dify"
    /\ \E ok \in BOOLEAN :
        \E result \in (IF ok THEN UploadResults ELSE {<<>>}) :
            LET id == UploadReturn(ok, result)
            IN /\ Record([op |-> "upload", filename |-> Filename(ev),
                          user |-> ev.user_id, ok |-> ok, id |-> id])
               /\ dify_file_id' = id
               /\ IF Truthy(id) THEN Goto("call_dify_api")
                  ELSE Goto("reply_upload_apology")
    /\ UNCHANGED <<user_sessions, req, ev, conversation_id, response, fwdlog,
                   pre_sessions, received, Elsewhere>>

\* line 115
reply_upload_apology ==
    /\ pc = "reply_upload_apology"
    /\ \E ok \in BOOLEAN :
        /\ reply_text(ev.reply_token, UPLOAD_APOLOGY, ok)
        /\ IF ok THEN Returned ELSE Goto("reply_file_error") /\ KeepLocals
    /\ UNCHANGED <<user_sessions, req, ev, fwdlog, pre_sessions, received, Elsewhere>>

\* lines 117-119
reply_file_error ==
    /\ pc = "reply_file_error"
    /\ \E ok \in BOOLEAN :
        /\ reply_text(ev.reply_token, FILE_ERROR_APOLOGY, ok)
        /\ IF ok THEN Returned ELSE Escape
    /\ UNCHANGED <<user_sessions, req, ev, fwdlog, pre_sessions, received, Elsewhere>>

\* ---- process_and_reply, lines 121-132 -----------------------------------
\* line 123 with call_dify_api, lines 167-213
call_dify_api ==
    /\ pc = "call_dify_api"
    /\ LET payload == Payload(QueryOf(ev), ev.user_id, conversation_id, dify_file_id)
           sent == Get(payload, "conversation_id", Absent)
       IN \E ok \in BOOLEAN :
            \E result \in (IF ok THEN ChatResults ELSE {<<>>}) :
                /\ Record([op |-> "forward", payload |-> payload, ok |-> ok])
                /\ IF ok
                   THEN /\ response' = [answer |-> ParseAnswer(result),
                                        new_conversation_id |->
                                            ParseConversationId(result)]
                        /\ fwdlog' = Append(fwdlog,
                                [user |-> ev.user_id, sent |-> sent,
                                 returned |-> ParseConversationId(result)])
                        /\ Goto("store_session")
                   ELSE /\ response' = <<>>
                        /\ fwdlog' = Append(fwdlog,
                                [user |-> ev.user_id, sent |-> sent,
                                 returned |-> Failed])
                        /\ Goto("reply_apology")
    /\ UNCHANGED <<user_sessions, req, ev, conversation_id, dify_file_id,
                   pre_sessions, received, Elsewhere>>


\* mutant: the token is written whatever it is (the guard of line 125 dropped)
store_session_unguarded ==
    /\ pc = "store_session"
    /\ user_sessions' = Put(user_sessions, ev.user_id, response.new_conversation_id)
    /\ Goto("reply_answer")
    /\ UNCHANGED <<req, ev, conversation_id, dify_file_id, response, calls, fwdlog,
                   pre_sessions, received, Elsewhere>>

\* mutant: one conversation id for the whole process instead of one per sender
store_session_shared ==
    /\ pc = "store_session"
    /\ IF Truthy(response.new_conversation_id)
       THEN user_sessions' = [u \in Users |-> response.new_conversation_id]
       ELSE UNCHANGED user_sessions
    /\ Goto("reply_answer")
    /\ UNCHANGED <<req, ev, conversation_id, dify_file_id, response, calls, fwdlog,
                   pre_sessions, received, Elsewhere>>

\* mutant: a response without a token ends the sender's conversation
store_session_forget ==
    /\ pc = "store_session"
    /\ IF Truthy(response.new_conversation_id)
       THEN user_sessions' = Put(user_sessions, ev.user_id,
                                 response.new_conversation_id)
       ELSE user_sessions' = [u \in DOMAIN user_sessions \ {ev.user_id} |->
                                    user_sessions[u]]
    /\ Goto("reply_answer")
    /\ UNCHANGED <<req, ev, conversation_id, dify_file_id, response, calls, fwdlog,
                   pre_sessions, received, Elsewhere>>

\* lines 125-126
store_session ==
    /\ pc = "store_session"
    /\ IF Truthy(response.new_conversation_id)
       THEN user_sessions' = Put(user_sessions, ev.user_id,
                                 response.new_conversation_id)
       ELSE UNCHANGED user_sessions
    /\ Goto("reply_answer")
    /\ UNCHANGED <<req, ev, conversation_id, dify_file_id, response, calls, fwdlog,
                   pre_sessions, received, Elsewhere>>

\* line 128
reply_answer ==
    /\ pc = "reply_answer"
    /\ \E ok \in BOOLEAN :
        /\ reply_text(ev.reply_token, response.answer, ok)
        /\ IF ok THEN Returned ELSE Goto("reply_apology") /\ KeepLocals
    /\ UNCHANGED <<user_sessions, req, ev, fwdlog, pre_sessions, received, Elsewhere>>

\* mutant: the apology path also ends the sender's conversation
reply_apology_reset ==
    /\ pc = "reply_apology"
    /\ user_sessions' = [u \in DOMAIN user_sessions \ {ev.user_id} |-> user_sessions[u]]
    /\ \E ok \in BOOLEAN :
        /\ reply_text(ev.reply_token, APOLOGY, ok)
        /\ IF ok THEN Returned
           ELSE IF IsMedia(ev) THEN Goto("reply_file_error") /\ KeepLocals
           ELSE Escape
    /\ UNCHANGED <<req, ev, fwdlog, pre_sessions, received, Elsewhere>>

\* lines 130-132; the exception of this reply is caught by line 117 when
\* process_and_reply was called from handle_file_message, by nothing otherwise
reply_apology ==
    /\ pc = "reply_apology"
    /\ \E ok \in BOOLEAN :
        /\ reply_text(ev.reply_token, APOLOGY, ok)
        /\ IF ok THEN Returned
           ELSE IF IsMedia(ev) THEN Goto("reply_file_error") /\ KeepLocals
           ELSE Escape
    /\ UNCHANGED <<user_sessions, req, ev, fwdlog, pre_sessions, received, Elsewhere>>

Next ==
    \/ Callback
    \/ Return200
    \/ Return500
    \/ Dispatch
    \/ handle_text_message
    \/ handle_file_message
    \/ get_message_content
    \/ upload_file_to_dify
    \/ reply_upload_apology
    \/ reply_file_error
    \/ call_dify_api
    \/ store_session
    \/ reply_answer
    \/ reply_apology

Spec == Init /\ [][Next]_vars

\* ---- the answer post-processing on its own, lines 201-207 ---------------
\* the texts an answer is put together from: the two tags, parts of a tag,
\* a letter and a blank
Pieces ==
    {OpenTag, CloseTag, <<"<", "t", "h", "i">>, <<"n", "k", ">">>, <<"x">>, <<" ">>}

RECURSIVE PiecesJoined(_)
PiecesJoined(n) ==
    IF n = 0 THEN {<<>>}
    ELSE {p \o rest : p \in Pieces, rest \in PiecesJoined(n - 1)}

AnswerTexts == UNION {PiecesJoined(n) : n \in 0..MaxPieces}

\* the 2xx JSON bodies: with an answer, or without one (line 201's default)
AnswerResults == {[answer |-> a] : a \in AnswerTexts} \cup {<<>>}

AnswerInit ==
    /\ user_sessions = <<>>
    /\ pc = "line_199"
    /\ status = "none"
    /\ req = [utf8 |-> TRUE, signed |-> TRUE]
    /\ queue = <<>>
    /\ ev = NoEvent
    /\ conversation_id = ""
    /\ dify_file_id = Absent
    /\ response = <<>>
    /\ calls = <<>>
    /\ fwdlog = <<>>
    /\ pre_sessions = <<>>
    /\ received = 0
    /\ \E result \in AnswerResults :
        answer_trace = [raw |-> Get(result, "answer", APOLOGY), result |-> result]
    /\ handlers = <<>>
    /\ writes = <<>>

AnswerFrame ==
    UNCHANGED <<user_sessions, status, req, queue, ev, conversation_id, dify_file_id,
                response, calls, fwdlog, pre_sessions, received, handlers, writes>>

\* lines 199-207: the answer call_dify_api returns for the body
post_process ==
    /\ pc = "line_199"
    /\ pc' = "line_207"
    /\ answer_trace' = [raw |-> answer_trace.raw, result |-> answer_trace.result,
                        out |-> ParseAnswer(answer_trace.result)]
    /\ AnswerFrame

\* line 205 applied to the answer it returned
post_process_again ==
    /\ pc = "line_207"
    /\ pc' = "again"
    /\ answer_trace' = [raw |-> answer_trace.raw, result |-> answer_trace.result,
                        out |-> answer_trace.out,
                        again |-> strip(re_sub_think(answer_trace.out))]
    /\ AnswerFrame

AnswerNext == post_process \/ post_process_again

AnswerSpec == AnswerInit /\ [][AnswerNext]_vars

\* ---- two handlers side by side ------------------------------------------
\* callback runs its handlers one after the other. The handlers below are the
\* same statements run by two threads over the one user_sessions dict, each
\* statement atomic (the interpreter lock), in any interleaving: the setting
\* of the claims about concurrent handling. Sequential handling is among the
\* interleavings.
HandlerIds == {1, 2}

NoCall == "<no call>"

\* the stores the relay can have reached when the two events arrive
Stores == UNION {[S -> Tokens] : S \in SUBSET Users}

ConcEvents == {e \in EventChoices : e.kind \in {"text", "image"} /\ e.text # "bye"}

ConcInit ==
    /\ user_sessions \in Stores
    /\ pre_sessions = user_sessions
    /\ pc = "idle"
    /\ status = "none"
    /\ req = [utf8 |-> TRUE, signed |-> TRUE]
    /\ queue = <<>>
    /\ ev = NoEvent
    /\ conversation_id = ""
    /\ dify_file_id = Absent
    /\ response = <<>>
    /\ calls = <<>>
    /\ fwdlog = <<>>
    /\ received = 0
    /\ answer_trace = <<>>
    /\ writes = <<>>
    /\ \E es \in [HandlerIds -> ConcEvents] :
        handlers = [t \in HandlerIds |->
            [pc |-> IF es[t].kind = "text" THEN "handle_text_message"
                    ELSE "handle_file_message",
             ev |-> Stamp(es, 0)[t],
             conversation_id |-> "",
             dify_file_id |-> Absent,
             new_conversation_id |-> "",
             sent |-> NoCall,
             returned |-> NoCall]]

ConcFrame ==
    UNCHANGED <<pc, status, req, queue, ev, conversation_id, dify_file_id, response,
                calls, fwdlog, pre_sessions, received, answer_trace>>

At(t, label) == handlers[t].pc = label

Move(t, label) == handlers' = [handlers EXCEPT ![t].pc = label]

\* lines 76-83 and lines 88-94: the handler reads the sender's token
h_read(t) ==
    /\ At(t, "handle_text_message") \/ At(t, "handle_file_message")
    /\ handlers' = [handlers EXCEPT
            ![t].conversation_id = Get(user_sessions, handlers[t].ev.user_id, ""),
            ![t].pc = IF At(t, "handle_text_message") THEN "call_dify_api"
                      ELSE "get_message_content"]
    /\ UNCHANGED <<user_sessions, writes>>
    /\ ConcFrame

\* lines 98-100
h_get_message_content(t) ==
    /\ At(t, "get_message_content")
    /\ \E ok \in BOOLEAN :
        Move(t, IF ok THEN "upload_file_to_dify" ELSE "reply_file_error")
    /\ UNCHANGED <<user_sessions, writes>>
    /\ ConcFrame

\* lines 104-115 with upload_file_to_dify, lines 144-165
h_upload_file_to_dify(t) ==
    /\ At(t, "upload_file_to_dify")
    /\ \E ok \in BOOLEAN :
        \E result \in (IF ok THEN UploadResults ELSE {<<>>}) :
            LET id == UploadReturn(ok, result)
            IN handlers' = [handlers EXCEPT
                    ![t].dify_file_id = id,
                    ![t].pc = IF Truthy(id) THEN "call_dify_api"
                              ELSE "reply_upload_apology"]
    /\ UNCHANGED <<user_sessions, writes>>
    /\ ConcFrame

\* line 123 with call_dify_api, lines 167-213
h_call_dify_api(t) ==
    /\ At(t, "call_dify_api")
    /\ LET h == handlers[t]
           payload == Payload(QueryOf(h.ev), h.ev.user_id, h.conversation_id,
                              h.dify_file_id)
           sent == Get(payload, "conversation_id", Absent)
       IN \E ok \in BOOLEAN :
            \E result \in (IF ok THEN ChatResults ELSE {<<>>}) :
                handlers' = [handlers EXCEPT
                    ![t].sent = sent,
                    ![t].returned = IF ok THEN ParseConversationId(result) ELSE Failed,
                    ![t].new_conversation_id =
                        IF ok THEN ParseConversationId(result) ELSE "",
                    ![t].pc = IF ok THEN "store_session" ELSE "reply_apology"]
    /\ UNCHANGED <<user_sessions, writes>>
    /\ ConcFrame

\* mutant: the token is written whatever it is (the guard of line 125 dropped)
h_store_session_unguarded(t) ==
    /\ At(t, "store_session")
    /\ user_sessions' = Put(user_sessions, handlers[t].ev.user_id,
                            handlers[t].new_conversation_id)
    /\ writes' = Append(writes, [handler |-> t, user |-> handlers[t].ev.user_id,
                                 token |-> handlers[t].new_conversation_id])
    /\ Move(t, "reply_answer")
    /\ ConcFrame

\* mutant: one conversation id for the whole process instead of one per sender
h_store_session_shared(t) ==
    /\ At(t, "store_session")
    /\ LET new == handlers[t].new_conversation_id
       IN IF Truthy(new)
          THEN /\ user_sessions' = [u \in Users |-> new]
               /\ writes' = Append(writes, [handler |-> t,
                                            user |-> handlers[t].ev.user_id,
                                            token |-> new])
          ELSE UNCHANGED <<user_sessions, writes>>
    /\ Move(t, "reply_answer")
    /\ ConcFrame

\* lines 125-126
h_store_session(t) ==
    /\ At(t, "store_session")
    /\ LET new == handlers[t].new_conversation_id
       IN IF Truthy(new)
          THEN /\ user_sessions' = Put(user_sessions, handlers[t].ev.user_id, new)
               /\ writes' = Append(writes, [handler |-> t,
                                            user |-> handlers[t].ev.user_id,
                                            token |-> new])
          ELSE UNCHANGED <<user_sessions, writes>>
    /\ Move(t, "reply_answer")
    /\ ConcFrame

\* line 128
h_reply_answer(t) ==
    /\ At(t, "reply_answer")
    /\ \E ok \in BOOLEAN : Move(t, IF ok THEN "done" ELSE "reply_apology")
    /\ UNCHANGED <<user_sessions, writes>>
    /\ ConcFrame

\* lines 130-132
h_reply_apology(t) ==
    /\ At(t, "reply_apology")
    /\ \E ok \in BOOLEAN :
        Move(t, IF ok THEN "done"
                ELSE IF IsMedia(handlers[t].ev) THEN "reply_file_error"
                ELSE "raised")
    /\ UNCHANGED <<user_sessions, writes>>
    /\ ConcFrame

\* line 115
h_reply_upload_apology(t) ==
    /\ At(t, "reply_upload_apology")
    /\ \E ok \in BOOLEAN : Move(t, IF ok THEN "done" ELSE "reply_file_error")
    /\ UNCHANGED <<user_sessions, writes>>
    /\ ConcFrame

\* lines 117-119
h_reply_file_error(t) ==
    /\ At(t, "reply_file_error")
    /\ \E ok \in BOOLEAN : Move(t, IF ok THEN "done" ELSE "raised")
    /\ UNCHANGED <<user_sessions, writes>>
    /\ ConcFrame

ConcNext ==
    \E t \in HandlerIds :
        \/ h_read(t)
        \/ h_get_message_content(t)
        \/ h_upload_file_to_dify(t)
        \/ h_call_dify_api(t)
        \/ h_store_session(t)
        \/ h_reply_answer(t)
        \/ h_reply_apology(t)
        \/ h_reply_upload_apology(t)
        \/ h_reply_file_error(t)

ConcSpec == ConcInit /\ [][ConcNext]_vars

\* ---- observations used by the properties --------------------------------
MaxOf(S) == CHOOSE m \in S : \A n \in S : m >= n

CallsOf(op) == SelectSeq(calls, LAMBDA c : c.op = op)

\* positions in calls of the calls of one kind
IndexOf(op) == {i \in 1..Len(calls) : calls[i].op = op}

\* the handler of ev is over: it returned to the loop or an exception left it
EventOver == ev # NoEvent /\ pc \in {"handle", "raise"}

\* the earlier chat-messages calls made for the sender of call k
EarlierOf(k) == {i \in 1..(k - 1) : fwdlog[i].user = fwdlog[k].user}

\* the earlier chat-messages calls for the sender of call k that returned a token
EarlierTokenOf(k) == {i \in EarlierOf(k) : fwdlog[i].returned \in Tokens}

\* the last non-empty token a chat-messages response carried for sender u
LastToken(u) ==
    LET got == {i \in 1..Len(fwdlog) : fwdlog[i].user = u /\ fwdlog[i].returned \in Tokens}
    IN IF got = {} THEN "" ELSE fwdlog[MaxOf(got)].returned

\* ---- C1 -----------------------------------------------------------------
\* C1: a POST /callback whose signature does not match the body is answered
\* 400, makes no outbound call of any kind and leaves the session store as it
\* was: every step that receives such a request, or is taken while it is the
\* last request received, ends with status 400, records no call and keeps
\* the store.
C1_InvalidSignatureRejected ==
    [][~req'.signed =>
            /\ status' = "400"
            /\ calls' = calls
            /\ user_sessions' = user_sessions]_vars

\* the part of C1 the code keeps: such a request is answered 400 or 500,
\* no call is recorded and the store is kept
InvalidSignatureNoEffect ==
    [][~req'.signed =>
            /\ status' \in {"400", "500"}
            /\ status' = "400" <=> req'.utf8
            /\ calls' = calls
            /\ user_sessions' = user_sessions]_vars

\* ---- C2 -----------------------------------------------------------------
\* C2 as stated: of two consecutive forward calls for one sender, the second
\* sends the conversation_id the first returned, and sends none when the first
\* returned none (empty or missing).
C2_SessionContinuity ==
    \A k \in 1..Len(fwdlog) :
        EarlierOf(k) # {} =>
            LET n == MaxOf(EarlierOf(k))
            IN fwdlog[n].returned # Failed =>
                fwdlog[k].sent = (IF fwdlog[n].returned = "" THEN Absent
                                  ELSE fwdlog[n].returned)

\* C2 amended: of two consecutive forward calls for one sender, the second
\* sends the conversation_id the first returned when that one is non-empty;
\* when the first returned none or failed, the second sends what the first
\* sent (none if the first sent none).
C2_SessionContinuityAmended ==
    \A k \in 1..Len(fwdlog) :
        EarlierOf(k) # {} =>
            LET n == MaxOf(EarlierOf(k))
            IN fwdlog[k].sent = (IF fwdlog[n].returned \in Tokens THEN fwdlog[n].returned
                                 ELSE fwdlog[n].sent)

\* a forward call that follows one that sent a token and got none back
C2_Witness ==
    \E k \in 1..Len(fwdlog) :
        /\ EarlierOf(k) # {}
        /\ fwdlog[MaxOf(EarlierOf(k))].returned = ""
        /\ fwdlog[MaxOf(EarlierOf(k))].sent \in Tokens

\* ---- C3 -----------------------------------------------------------------
\* C3: once a non-empty token was received for a sender, every later forward
\* call for that sender (text or media) carries the most recently received
\* non-empty token, and outside the window between a response and its write
\* the store holds that token: failures and token-less responses in between
\* do not clear it.
C3_TokenSticks ==
    /\ \A k \in 1..Len(fwdlog) :
        EarlierTokenOf(k) # {} =>
            fwdlog[k].sent = fwdlog[MaxOf(EarlierTokenOf(k))].returned
    /\ pc # "store_session" =>
        \A u \in Users : Get(user_sessions, u, "") = LastToken(u)

\* a media forward call that carries a token received before a failed or
\* token-less call of the same sender
C3_Witness ==
    /\ IsMedia(ev)
    /\ CallsOf("forward") # <<>>
    /\ "conversation_id" \in DOMAIN CallsOf("forward")[1].payload
    /\ LET k == Len(fwdlog)
       IN /\ EarlierTokenOf(k) # {}
          /\ \E j \in EarlierOf(k) :
                /\ j > MaxOf(EarlierTokenOf(k))
                /\ fwdlog[j].returned \in {"", Failed}

\* ---- C4 -----------------------------------------------------------------
\* C4: the reply primitive is invoked at most once with an event's reply
\* token, on every path, also when the reply call fails.
C4_ReplyAtMostOnce ==
    ev # NoEvent =>
        Cardinality({i \in IndexOf("reply") :
                        calls[i].replyToken = ev.reply_token}) <= 1

\* ---- C5 -----------------------------------------------------------------
\* C5: when the forward call of an event fails, the reply emitted for the
\* event is the fixed apology string and the session store is as it was
\* before the event.
C5_BackendFailureApology ==
    (\E i \in IndexOf("forward") : ~calls[i].ok) =>
        /\ \A i \in IndexOf("reply") : calls[i].text = APOLOGY
        /\ EventOver => IndexOf("reply") # {}
        /\ user_sessions = pre_sessions

\* ---- C6 -----------------------------------------------------------------
\* C6: when the upload of a media event fails, no forward call is made for
\* the event, the reply emitted is the upload apology string and the session
\* store is unchanged.
C6_UploadFailureApology ==
    (\E i \in IndexOf("upload") : ~calls[i].ok) =>
        /\ IndexOf("forward") = {}
        /\ \A i \in IndexOf("reply") : calls[i].text = UPLOAD_APOLOGY
        /\ EventOver => IndexOf("reply") # {}
        /\ user_sessions = pre_sessions

\* ---- C7 -----------------------------------------------------------------
\* C7: every POST /callback with a valid signature is answered 200, whatever
\* the outcomes of the outbound calls made for its events.
C7_ValidSignature200 ==
    (req.signed /\ pc = "idle" /\ status # "none") => status = "200"

\* ---- C8 -----------------------------------------------------------------
UploadedQuery(kind) ==
    CASE kind = "image" -> "[image uploaded]"
      [] kind = "video" -> "[video uploaded]"
      [] kind = "audio" -> "[audio uploaded]"

\* the forward call at position j is the one the media handler makes after
\* the upload at position i
ForwardCarries(i, j) ==
    /\ i < j
    /\ calls[j].payload.query = UploadedQuery(ev.kind)
    /\ calls[j].payload.user = ev.user_id
    /\ Len(calls[j].payload.files) = 1
    /\ calls[j].payload.files[1].upload_file_id = calls[i].id
    /\ calls[j].payload.files[1].transfer_method = "local_file"

\* C8 as stated: every media event makes exactly one upload call, followed by
\* exactly one forward call whose query is "[<kind> uploaded]" and which
\* carries the file reference the upload returned.
C8_MediaUploadThenForward ==
    (EventOver /\ IsMedia(ev)) =>
        /\ Cardinality(IndexOf("upload")) = 1
        /\ Cardinality(IndexOf("forward")) = 1
        /\ \A i \in IndexOf("upload") : \A j \in IndexOf("forward") :
                ForwardCarries(i, j)

\* C8 amended: a media event whose download succeeds makes exactly one upload
\* call (none when the download fails); when the upload returns a non-empty
\* file reference exactly one forward call follows it, with the query
\* "[<kind> uploaded]" and that file reference; when the upload fails or
\* returns no file reference no forward call is made.
C8_MediaUploadThenForwardAmended ==
    (EventOver /\ IsMedia(ev)) =>
        /\ Cardinality(IndexOf("download")) = 1
        /\ Cardinality(IndexOf("upload")) =
                (IF \E d \in IndexOf("download") : calls[d].ok THEN 1 ELSE 0)
        /\ Cardinality(IndexOf("forward")) =
                (IF \E i \in IndexOf("upload") : Truthy(calls[i].id) THEN 1 ELSE 0)
        /\ \A i \in IndexOf("upload") : \A j \in IndexOf("forward") :
                ForwardCarries(i, j)

\* a media event that went through upload and forward
C8_Witness ==
    /\ EventOver
    /\ ev.kind \in {"video", "audio"}
    /\ IndexOf("upload") # {}
    /\ IndexOf("forward") # {}

\* ---- C9 -----------------------------------------------------------------
\* C9: a text event makes exactly one forward call, before which no download
\* or upload is made, with the message text as query, the sender as user and
\* an empty files list.
C9_TextForward ==
    (ev # NoEvent /\ ev.kind = "text") =>
        /\ IndexOf("download") = {}
        /\ IndexOf("upload") = {}
        /\ Cardinality(IndexOf("forward")) <= 1
        /\ (pc \notin {"handle_text_message", "call_dify_api"}) =>
                /\ Cardinality(IndexOf("forward")) = 1
                /\ calls[1].op = "forward"
                /\ calls[1].payload.query = ev.text
                /\ calls[1].payload.user = ev.user_id
                /\ calls[1].payload.files = <<>>

\* a text event whose handler is over
C9_Witness ==
    /\ EventOver
    /\ ev.kind = "text"
    /\ ev.text \in Texts
    /\ calls # <<>>

\* ---- C10 ----------------------------------------------------------------
\* C10: handling an event of sender u leaves the session entries of every
\* other sender as they were, and the conversation_id of every forward call
\* for u is absent or a token an earlier forward call for u returned.
C10_NoCrossUserLeak ==
    /\ ev # NoEvent =>
        \A v \in Users \ {ev.user_id} :
            /\ (v \in DOMAIN user_sessions) = (v \in DOMAIN pre_sessions)
            /\ Get(user_sessions, v, "") = Get(pre_sessions, v, "")
    /\ \A k \in 1..Len(fwdlog) :
        \/ fwdlog[k].sent = Absent
        \/ \E i \in EarlierOf(k) : fwdlog[i].returned = fwdlog[k].sent

\* a forward call for one sender carries its token while another sender holds
\* a different one
C10_Witness ==
    /\ ev # NoEvent
    /\ CallsOf("forward") # <<>>
    /\ "conversation_id" \in DOMAIN CallsOf("forward")[1].payload
    /\ \E v \in Users \ {ev.user_id} :
        /\ v \in DOMAIN user_sessions
        /\ user_sessions[v] # CallsOf("forward")[1].payload.conversation_id

\* ---- C11 ----------------------------------------------------------------
Contains(s, p) == \E i \in 1..Len(s) : MatchesAt(s, p, i)

TagFree(s) == ~Contains(s, OpenTag) /\ ~Contains(s, CloseTag)

\* s without its leading and trailing whitespace
Trimmed(s) ==
    LET keep == {i \in 1..Len(s) : s[i] \notin Whitespace}
    IN IF keep = {} THEN <<>> ELSE SubSeq(s, MinOf(keep), MaxOf(keep))

\* the ways to read s as A <think> B </think> C: the positions of the tags
Readings(s) ==
    {ij \in (1..Len(s)) \X (1..Len(s)) :
        /\ MatchesAt(s, OpenTag, ij[1])
        /\ MatchesAt(s, CloseTag, ij[2])
        /\ ij[2] >= ij[1] + Len(OpenTag)}

PartA(s, ij) == SubSeq(s, 1, ij[1] - 1)
PartB(s, ij) == SubSeq(s, ij[1] + Len(OpenTag), ij[2] - 1)
PartC(s, ij) == SubSeq(s, ij[2] + Len(CloseTag), Len(s))

\* C11 as stated: an answer A<think>B</think>C is returned as AC with the
\* surrounding whitespace trimmed, and an answer without a <think> tag is
\* returned unchanged.
C11_ThinkStripped ==
    pc = "line_207" =>
        LET raw == answer_trace.raw
        IN /\ \A ij \in Readings(raw) :
                answer_trace.out = Trimmed(PartA(raw, ij) \o PartC(raw, ij))
           /\ ~Contains(raw, OpenTag) => answer_trace.out = raw

\* C11 amended: an answer A<think>B</think>C whose A, B and C hold no
\* <think> and no </think> tag is returned as AC with the surrounding
\* whitespace trimmed, and an answer without a <think> tag is returned with
\* its surrounding whitespace trimmed and otherwise unchanged.
C11_ThinkStrippedAmended ==
    pc = "line_207" =>
        LET raw == answer_trace.raw
        IN /\ \A ij \in Readings(raw) :
                (/\ TagFree(PartA(raw, ij))
                 /\ TagFree(PartB(raw, ij))
                 /\ TagFree(PartC(raw, ij)))
                    => answer_trace.out = Trimmed(PartA(raw, ij) \o PartC(raw, ij))
           /\ ~Contains(raw, OpenTag) => answer_trace.out = Trimmed(raw)

\* an answer with text before and after one block, returned shorter than AC
\* because of the trimming
C11_Witness ==
    /\ pc = "line_207"
    /\ \E ij \in Readings(answer_trace.raw) :
        LET raw == answer_trace.raw
        IN /\ TagFree(PartA(raw, ij)) /\ PartA(raw, ij) # <<>>
           /\ TagFree(PartB(raw, ij)) /\ PartB(raw, ij) # <<>>
           /\ TagFree(PartC(raw, ij)) /\ PartC(raw, ij) # <<>>
           /\ answer_trace.out # <<>>
           /\ Len(answer_trace.out) < Len(PartA(raw, ij)) + Len(PartC(raw, ij))

\* ---- C17 ----------------------------------------------------------------
\* C17: the stripping is idempotent: applied to its own output it returns
\* that output, so no returned answer holds a complete <think>...</think>
\* block.
C17_StripIdempotent ==
    /\ pc = "again" => answer_trace.again = answer_trace.out
    /\ pc \in {"line_207", "again"} => Readings(answer_trace.out) = {}

\* ---- C12 ----------------------------------------------------------------
\* the chat-messages call of ev succeeded and returned a non-empty token
ForwardGaveToken ==
    /\ \E i \in IndexOf("forward") : calls[i].ok
    /\ fwdlog[Len(fwdlog)].returned \in Tokens

\* C12: the store changes only in the step of lines 125-126, taken right
\* after a successful forward call that returned a non-empty token and before
\* any reply of the event, and it then holds that token for the sender; when
\* a reply is issued after such a forward call the store already holds the
\* token; no other step changes the store.
C12_WriteAfterForwardBeforeReply ==
    [][/\ user_sessions' # user_sessions =>
            /\ pc = "store_session"
            /\ calls # <<>>
            /\ calls[Len(calls)].op = "forward"
            /\ ForwardGaveToken
            /\ user_sessions' =
                    Put(user_sessions, ev.user_id, fwdlog[Len(fwdlog)].returned)
       /\ (/\ Len(calls') = Len(calls) + 1
           /\ calls'[Len(calls')].op = "reply"
           /\ ForwardGaveToken) =>
                Get(user_sessions, ev.user_id, "") = fwdlog[Len(fwdlog)].returned]_vars

\* the token of a response is in the store and the reply is still to come
C12_Witness ==
    /\ pc = "reply_answer"
    /\ user_sessions # pre_sessions
    /\ IndexOf("reply") = {}

\* ---- C15 ----------------------------------------------------------------
FailedCalls ==
    {i \in 1..Len(calls) :
        calls[i].op \in {"download", "upload", "forward"} /\ ~calls[i].ok}

Apologies == {APOLOGY, UPLOAD_APOLOGY, FILE_ERROR_APOLOGY}

\* C15: the handler of a text or media event never ends without a reply
\* call; when exactly one of its download, upload and forward calls failed
\* and the reply succeeded, exactly one reply was made, an apology string,
\* and no download, upload or forward call was made twice.
C15_AnsweredOnce ==
    EventOver =>
        /\ IndexOf("reply") # {}
        /\ (/\ Cardinality(FailedCalls) = 1
            /\ \A i \in IndexOf("reply") : calls[i].ok) =>
                /\ Cardinality(IndexOf("reply")) = 1
                /\ \A i \in IndexOf("reply") : calls[i].text \in Apologies
                /\ \A op \in {"download", "upload", "forward"} :
                        Cardinality(IndexOf(op)) <= 1

\* a media event whose upload failed and whose reply went through
C15_Witness ==
    /\ EventOver
    /\ \E i \in FailedCalls : calls[i].op = "upload"
    /\ Cardinality(FailedCalls) = 1
    /\ \A i \in IndexOf("reply") : calls[i].ok

\* ---- C16 ----------------------------------------------------------------
\* C16: when the content download of a media event fails, no upload and no
\* forward call is made for it, one reply with the fixed file-processing
\* apology is made, and the session store is unchanged.
C16_DownloadFailure ==
    (\E i \in IndexOf("download") : ~calls[i].ok) =>
        /\ IndexOf("upload") = {}
        /\ IndexOf("forward") = {}
        /\ \A i \in IndexOf("reply") : calls[i].text = FILE_ERROR_APOLOGY
        /\ Cardinality(IndexOf("reply")) <= 1
        /\ EventOver => Cardinality(IndexOf("reply")) = 1
        /\ user_sessions = pre_sessions

\* a media event whose download failed and whose apology went through
C16_Witness ==
    /\ EventOver
    /\ \E i \in IndexOf("download") : ~calls[i].ok
    /\ \E i \in IndexOf("reply") : calls[i].ok
    /\ DOMAIN user_sessions # {}

\* ---- C18 ----------------------------------------------------------------
\* C18: every value in the store is a non-empty conversation_id that a
\* chat-messages response carried for that sender, and no step removes a key.
C18_StoreKeepsTokens ==
    /\ [](\A u \in DOMAIN user_sessions :
            /\ user_sessions[u] # ""
            /\ \E i \in 1..Len(fwdlog) :
                /\ fwdlog[i].user = u
                /\ fwdlog[i].returned = user_sessions[u])
    /\ [][DOMAIN user_sessions \subseteq DOMAIN user_sessions']_vars

\* both senders have an entry and a token-less response has just come in
C18_Witness ==
    /\ DOMAIN user_sessions = Users
    /\ pc = "reply_answer"
    /\ fwdlog[Len(fwdlog)].returned = ""

\* ---- C19 ----------------------------------------------------------------
\* C19: on the media path every forward call carries a non-empty file
\* reference; after a 2xx upload response without an id, or with an empty
\* one, no forward call is made and the next call is the reply with the
\* upload apology, as after a failed upload.
C19_ForwardNeedsFileReference ==
    IsMedia(ev) =>
        /\ \A j \in IndexOf("forward") :
            /\ Len(calls[j].payload.files) = 1
            /\ Truthy(calls[j].payload.files[1].upload_file_id)
        /\ \A i \in IndexOf("upload") :
            (calls[i].id \in {"", Absent}) =>
                /\ IndexOf("forward") = {}
                /\ EventOver => i < Len(calls)
                /\ i < Len(calls) =>
                    /\ calls[i + 1].op = "reply"
                    /\ calls[i + 1].text = UPLOAD_APOLOGY

\* a media event whose upload was answered 2xx with an empty id
C19_Witness ==
    /\ EventOver
    /\ IsMedia(ev)
    /\ \E i \in IndexOf("upload") : calls[i].ok /\ calls[i].id = ""

\* ---- C13 ----------------------------------------------------------------
Over(t) == handlers[t].pc \in {"done", "raised"}

SenderOf(t) == handlers[t].ev.user_id

\* the store after handler t ran alone from store, given what its forward
\* call returned (nothing when it made none)
AloneStore(store, t) ==
    IF handlers[t].returned \in Tokens
    THEN Put(store, SenderOf(t), handlers[t].returned)
    ELSE store

\* the conversation_id handler t would send running alone from store
AloneSent(store, t) ==
    IF SenderOf(t) \in DOMAIN store THEN store[SenderOf(t)] ELSE Absent

\* C13: for two events of different senders handled side by side, in every
\* interleaving each handler sends the conversation_id it would send, and
\* the store ends as it would end, were the two handled one after the other,
\* in either order.
C13_DifferentSendersIndependent ==
    \A a \in HandlerIds : \A b \in HandlerIds \ {a} :
        SenderOf(a) # SenderOf(b) =>
            /\ handlers[a].sent # NoCall =>
                    handlers[a].sent = AloneSent(pre_sessions, a)
            /\ handlers[b].sent # NoCall =>
                    handlers[b].sent = AloneSent(AloneStore(pre_sessions, a), b)
            /\ (Over(a) /\ Over(b)) =>
                    user_sessions = AloneStore(AloneStore(pre_sessions, a), b)

\* two handlers of different senders in flight: one has its new token still
\* to write, the other has written its own and not replied yet
C13_Witness ==
    \E a \in HandlerIds : \E b \in HandlerIds \ {a} :
        /\ SenderOf(a) # SenderOf(b)
        /\ handlers[a].pc = "store_session"
        /\ handlers[a].returned \in Tokens
        /\ handlers[b].pc = "reply_answer"
        /\ \E i \in 1..Len(writes) : writes[i].handler = b

\* ---- C14 ----------------------------------------------------------------
WritesOf(u) == SelectSeq(writes, LAMBDA w : w.user = u)

\* C14: for two events of one sender handled side by side, in every
\* interleaving the sender's entry is the token of the last write made for
\* the sender (the prior value while none was made), and so always the prior
\* value or a non-empty token returned to one of the two handlers.
C14_LastWriteWins ==
    \A a \in HandlerIds : \A b \in HandlerIds \ {a} :
        SenderOf(a) = SenderOf(b) =>
            LET u == SenderOf(a)
                now == Get(user_sessions, u, "")
            IN /\ now = IF WritesOf(u) = <<>> THEN Get(pre_sessions, u, "")
                        ELSE WritesOf(u)[Len(WritesOf(u))].token
               /\ now # Get(pre_sessions, u, "") =>
                    /\ now # ""
                    /\ \E t \in {a, b} : handlers[t].returned = now
               /\ (u \in DOMAIN user_sessions) =
                    (u \in DOMAIN pre_sessions \/ WritesOf(u) # <<>>)

\* both handlers of one sender are over, both wrote, and the one that read
\* the token before the other wrote its own wrote last
C14_Witness ==
    /\ \A t \in HandlerIds : Over(t)
    /\ SenderOf(1) = SenderOf(2)
    /\ Len(writes) = 2
    /\ writes[1].token # writes[2].token
    /\ handlers[writes[2].handler].sent # writes[1].token
====
